---- MODULE Spec2Model ----
(***************************************************************************)
(* Model of src/main.py: one run of main(), which reviews a pull request   *)
(* either from the files of its last commit ("files" mode) or from its     *)
(* patch ("patch" mode), asks the completion service for one review and    *)
(* posts it as a comment.                                                  *)
(*                                                                         *)
(* Text is a sequence of symbols.  The multi-character literals of the two *)
(* regular expressions of analyze_patch that hold no whitespace are one    *)
(* symbol each: "d" is "diff --git", "a" is "a/", "b" is "b/".  Whitespace *)
(* (" " and "\n") stays one symbol per character, so that the header       *)
(* "diff --git a/x b/y" is <<"d"," ","a","x"," ","b","y">>.                *)
(***************************************************************************)
EXTENDS Integers, Sequences, FiniteSets, TLC

VARIABLES
    pc,              \* where the run is: the function about to execute
    MODE,            \* env_vars['MODE'] as read by main
    custom_prompt,   \* env_vars['CUSTOM_PROMPT'] (<<>> when unset or empty)
    include_regex,   \* process_files' parameter (<<>> when unset or empty)
    exclude_regex,   \* process_files' parameter (<<>> when unset or empty)
    commits,         \* list(pull_request.get_commits())
    commit_files,    \* what get_commit_files returned
    missing,         \* the filenames for which get_file_content raises
    files,           \* analyze_commit_files' local list, after the filters
    patch_content,   \* what get_pr_patch returned
    file_diffs,      \* analyze_patch's re.split result
    faulty,          \* the indices of file_diffs whose processing raises
    idx,             \* position of the running for-loop
    combined,        \* combined_content / combined_diff, one unit per append
    calls,           \* the collaborator calls made so far, in order
    comments         \* the comments posted on the pull request, in order

vars == <<pc, MODE, custom_prompt, include_regex, exclude_regex, commits,
          commit_files, missing, files, patch_content, file_diffs, faulty,
          idx, combined, calls, comments>>

\* ------------------------------------------------------------------ bounds

MaxCommits == 2
MaxFiles == 2
MaxLines == 3

\* ------------------------------------------------------------- text helpers

None == <<>>

Truthy(v) == v # <<>>

Range(s) == {s[i] : i \in 1..Len(s)}

SeqsUpTo(S, n) == UNION {[1..k -> S] : k \in 0..n}

Whitespace == {" ", "\n"}

\* str.strip()
Strip(s) ==
    LET keep == {i \in 1..Len(s) : s[i] \notin Whitespace}
    IN IF keep = {} THEN <<>>
       ELSE LET lo == CHOOSE i \in keep : \A j \in keep : i <= j
                hi == CHOOSE i \in keep : \A j \in keep : j <= i
            IN SubSeq(s, lo, hi)

\* ^ under re.MULTILINE
AtLineStart(s, i) == i = 1 \/ s[i - 1] = "\n"

\* the last position of the line that starts at i (i - 1 for an empty line)
LineEnd(s, i) ==
    LET stops == {j \in i..Len(s) : s[j] = "\n"}
    IN IF stops = {} THEN Len(s)
       ELSE (CHOOSE j \in stops : \A k \in stops : j <= k) - 1

\* ------------------------------------------------------- the filename filter

\* re.compile raising re.error: an unbalanced parenthesis
Malformed(p) == "(" \in Range(p)

TokMatch(t, c) == t = "." \/ (t = "\\." /\ c = ".") \/ (t \notin {".", "\\."} /\ t = c)

\* re.search(p, s) for a pattern of literals, ".", "\.", a leading "^" and a
\* trailing "$"
Search(p, s) ==
    LET atStart == Len(p) > 0 /\ p[1] = "^"
        atEnd   == Len(p) > 0 /\ p[Len(p)] = "$"
        core    == SubSeq(p, IF atStart THEN 2 ELSE 1,
                             IF atEnd THEN Len(p) - 1 ELSE Len(p))
    IN \E i \in 1..(Len(s) + 1) :
          /\ atStart => i = 1
          /\ i + Len(core) - 1 <= Len(s)
          /\ \A k \in 1..Len(core) : TokMatch(core[k], s[i + k - 1])
          /\ atEnd => i + Len(core) - 1 = Len(s)

ReError == <<"re.error">>

IncludeFilter(fs, inc) ==
    IF ~Truthy(inc) THEN fs
    ELSE IF fs # <<>> /\ Malformed(inc) THEN ReError
    ELSE SelectSeq(fs, LAMBDA f : Search(inc, f))

\* ExcludeFilter keeping the matching files: the "not" of line 173 left out
ExcludeFilter_KeepsMatches(fs, exc) ==
    IF ~Truthy(exc) THEN fs
    ELSE IF fs # <<>> /\ Malformed(exc) THEN ReError
    ELSE SelectSeq(fs, LAMBDA f : Search(exc, f))

ExcludeFilter(fs, exc) ==
    IF ~Truthy(exc) THEN fs
    ELSE IF fs # <<>> /\ Malformed(exc) THEN ReError
    ELSE SelectSeq(fs, LAMBDA f : ~Search(exc, f))

FilterFiles(fs, inc, exc) ==
    LET kept == IncludeFilter(fs, inc)
    IN IF kept = ReError THEN ReError ELSE ExcludeFilter(kept, exc)

\* --------------------------------------------------------- the diff segmenter

\* where (?=^diff --git ) matches
HeaderAt(s, i) ==
    /\ AtLineStart(s, i)
    /\ s[i] = "d"
    /\ i + 1 <= Len(s)
    /\ s[i + 1] = " "

HeaderPositions(s) == {i \in 1..Len(s) : HeaderAt(s, i)}

\* SplitDiffs without the lookahead: re.split(r'^diff --git ', ...) consumes
\* the header marker
SplitDiffs_Consuming(s) ==
    LET P == HeaderPositions(s)
        n == Cardinality(P)
        cut(k) == CHOOSE p \in P : Cardinality({q \in P : q < p}) = k - 1
    IN [k \in 1..(n + 1) |->
           SubSeq(s, IF k = 1 THEN 1 ELSE cut(k - 1) + 2,
                     IF k = n + 1 THEN Len(s) ELSE cut(k) - 1)]

\* re.split(r'(?=^diff --git )', s, flags=re.MULTILINE)
SplitDiffs(s) ==
    LET P == HeaderPositions(s)
        n == Cardinality(P)
        cut(k) == CHOOSE p \in P : Cardinality({q \in P : q < p}) = k - 1
    IN [k \in 1..(n + 1) |->
           SubSeq(s, IF k = 1 THEN 1 ELSE cut(k - 1),
                     IF k = n + 1 THEN Len(s) ELSE cut(k) - 1)]

UnknownFile == <<"Unknown file">>

\* the positions k of the line at i where " b/" stands between a non-empty
\* ".+" and a non-empty "(.+)"
DestinationMarks(s, i) ==
    {k \in (i + 4)..(LineEnd(s, i) - 2) : s[k] = " " /\ s[k + 1] = "b"}

\* where ^diff --git a\/.+ b\/(.+) matches
FileHeaderAt(s, i) ==
    /\ HeaderAt(s, i)
    /\ i + 2 <= LineEnd(s, i)
    /\ s[i + 2] = "a"
    /\ DestinationMarks(s, i) # {}

\* FileName with a lazy first group, a\/.+? b\/(.+): the first " b/" of the
\* header line is taken for the separator
FileName_Lazy(diff_text) ==
    LET at == {i \in 1..Len(diff_text) : FileHeaderAt(diff_text, i)}
    IN IF at = {} THEN UnknownFile
       ELSE LET i == CHOOSE x \in at : \A y \in at : x <= y
                M == DestinationMarks(diff_text, i)
                k == CHOOSE x \in M : \A y \in M : x <= y
            IN SubSeq(diff_text, k + 2, LineEnd(diff_text, i))

\* match.group(1) if match else "Unknown file"
FileName(diff_text) ==
    LET at == {i \in 1..Len(diff_text) : FileHeaderAt(diff_text, i)}
    IN IF at = {} THEN UnknownFile
       ELSE LET i == CHOOSE x \in at : \A y \in at : x <= y
                M == DestinationMarks(diff_text, i)
                k == CHOOSE x \in M : \A y \in M : y <= x
            IN SubSeq(diff_text, k + 2, LineEnd(diff_text, i))

\* ------------------------------------------------------------------- inputs

Modes == {"files", "patch", "other"}

CustomPrompts == {None, <<"custom">>}

FileNames == {<<"a", ".", "p">>, <<"b", ".", "m">>, <<"p", ".", "m">>}

Patterns == {None, <<"\\.", "p", "$">>, <<"p">>, <<"^", ".", "\\.">>,
             <<"m", "$">>, <<"(">>}

DiffLines == {<<"d", " ", "a", "x", " ", "b", "y">>,
              <<"d", " ", "a", "x", " ", "b", " ", "b", "y">>,
              <<"d", " ", "a", " ", "b", "y">>,
              <<"d", " ", "x">>,
              <<"d", "x">>,
              <<" ", "d", " ", "x">>,
              <<"x">>,
              <<" ">>,
              <<>>}

RECURSIVE Join(_)
Join(ls) ==
    IF ls = <<>> THEN <<>>
    ELSE IF Len(ls) = 1 THEN ls[1]
    ELSE ls[1] \o <<"\n">> \o Join(Tail(ls))

Patches == {Join(ls) \o t : ls \in SeqsUpTo(DiffLines, MaxLines),
                            t \in {<<>>, <<"\n">>}}

\* ------------------------------------------------------------ collaborators

\* one collaborator call: what was called, on what, and whether it raised
Call(fn, arg, outcome) == [fn |-> fn, arg |-> arg, outcome |-> outcome]

NoChangesBanner == "Patch file does not contain any changes"
ReviewBanner == "ChatGPT's code review:\n "
DiffFailureBanner == "ChatGPT was unable to process the diff for a file: "

Comment(banner, text) == [banner |-> banner, text |-> text]

\* create_review_prompt
create_review_prompt(content, custom) ==
    [template |-> IF Truthy(custom) THEN "custom" ELSE "default",
     instructions |-> custom,
     content |-> content]

\* the text generate_response returns for a prompt
ReviewOf(prompt) == <<[review_of |-> prompt]>>

Unit(label, body) == [label |-> label, body |-> body]

\* the text get_file_content returns
ContentOf(sha, filename) == <<[sha |-> sha, content_of |-> filename]>>

\* --------------------------------------------------------------------- Init

Init ==
    /\ pc = "main"
    /\ MODE = "unset"
    /\ custom_prompt = None
    /\ include_regex = None
    /\ exclude_regex = None
    /\ commits = <<>>
    /\ commit_files = <<>>
    /\ missing = {}
    /\ files = <<>>
    /\ patch_content = <<>>
    /\ file_diffs = <<>>
    /\ faulty = {}
    /\ idx = 0
    /\ combined = <<>>
    /\ calls = <<>>
    /\ comments = <<>>

\* ------------------------------------------------------------------ actions

\* main: read the environment and dispatch on MODE
Main ==
    /\ pc = "main"
    /\ \E env_ok \in BOOLEAN, mode \in Modes, custom \in CustomPrompts,
          inc \in Patterns, exc \in Patterns :
         IF ~env_ok
         THEN /\ pc' = "returned"
              /\ UNCHANGED <<MODE, custom_prompt, include_regex, exclude_regex>>
         ELSE /\ MODE' = mode
              /\ custom_prompt' = custom
              /\ include_regex' = IF mode = "files" THEN inc ELSE None
              /\ exclude_regex' = IF mode = "files" THEN exc ELSE None
              /\ pc' = IF mode = "files" THEN "process_files"
                       ELSE IF mode = "patch" THEN "process_patch"
                       ELSE "raised"
    /\ UNCHANGED <<commits, commit_files, missing, files, patch_content,
                   file_diffs, faulty, idx, combined, calls, comments>>

\* ProcessFiles posting a notice when there are no commits, as process_patch
\* does for an empty patch
ProcessFiles_PostsNotice ==
    /\ pc = "process_files"
    /\ \E ok \in BOOLEAN, n \in 0..MaxCommits :
         IF ~ok
         THEN /\ pc' = "raised"
              /\ calls' = Append(calls, Call("get_pr", <<>>, "raised"))
              /\ UNCHANGED <<commits, comments>>
         ELSE /\ commits' = [i \in 1..n |-> i]
              /\ IF n = 0
                 THEN /\ calls' = calls \o <<Call("get_pr", <<>>, "ok"),
                                             Call("get_commits", <<>>, "ok"),
                                             Call("post_comment", <<>>, "ok")>>
                      /\ comments' = Append(comments, Comment("No commits found.", <<>>))
                      /\ pc' = "returned"
                 ELSE /\ calls' = calls \o <<Call("get_pr", <<>>, "ok"),
                                             Call("get_commits", <<>>, "ok")>>
                      /\ pc' = "analyze_commit_files"
                      /\ UNCHANGED comments
    /\ UNCHANGED <<MODE, custom_prompt, include_regex, exclude_regex,
                   commit_files, missing, files, patch_content, file_diffs,
                   faulty, idx, combined>>

\* process_files: list the commits, stop when there are none
ProcessFiles ==
    /\ pc = "process_files"
    /\ \E ok \in BOOLEAN, n \in 0..MaxCommits :
         IF ~ok
         THEN /\ pc' = "raised"
              /\ calls' = Append(calls, Call("get_pr", <<>>, "raised"))
              /\ UNCHANGED commits
         ELSE /\ commits' = [i \in 1..n |-> i]
              /\ calls' = calls \o <<Call("get_pr", <<>>, "ok"),
                                        Call("get_commits", <<>>, "ok")>>
              /\ pc' = IF n = 0 THEN "returned" ELSE "analyze_commit_files"
    /\ UNCHANGED <<MODE, custom_prompt, include_regex, exclude_regex,
                   commit_files, missing, files, patch_content, file_diffs,
                   faulty, idx, combined, comments>>

\* analyze_commit_files, up to the loop: list the files, apply the filters
AnalyzeCommitFiles ==
    /\ pc = "analyze_commit_files"
    /\ \E ok \in BOOLEAN, listed \in SeqsUpTo(FileNames, MaxFiles) :
         IF ~ok
         THEN /\ calls' = Append(calls, Call("get_commit_files", <<>>, "raised"))
              /\ pc' = "raised"
              /\ UNCHANGED <<commit_files, files, missing, idx>>
         ELSE LET kept == FilterFiles(listed, include_regex, exclude_regex)
              IN /\ calls' = Append(calls, Call("get_commit_files", <<>>, "ok"))
                 /\ commit_files' = listed
                 /\ IF kept = ReError
                    THEN /\ pc' = "raised"
                         /\ UNCHANGED <<files, missing, idx>>
                    ELSE /\ files' = kept
                         /\ \E gone \in SUBSET Range(kept) : missing' = gone
                         /\ idx' = 1
                         /\ pc' = "fetch_loop"
    /\ UNCHANGED <<MODE, custom_prompt, include_regex, exclude_regex, commits,
                   patch_content, file_diffs, faulty, combined, comments>>

\* FetchFile asking for and posting a review of each file on its own
FetchFile_ReviewsEachFile ==
    /\ pc = "fetch_loop"
    /\ idx <= Len(files)
    /\ LET sha == commits[Len(commits)]
           filename == files[idx]
           unit == Unit(filename, ContentOf(sha, filename))
       IN IF filename \in missing
          THEN /\ calls' = Append(calls, Call("get_file_content", filename, "raised"))
               /\ UNCHANGED <<combined, comments>>
          ELSE /\ calls' = calls \o <<Call("get_file_content", filename, "ok"),
                                      Call("generate_response", <<>>, "ok"),
                                      Call("post_comment", <<>>, "ok")>>
               /\ combined' = Append(combined, unit)
               /\ comments' = Append(comments,
                      Comment(ReviewBanner,
                              ReviewOf(create_review_prompt(<<unit>>, custom_prompt))))
    /\ idx' = idx + 1
    /\ UNCHANGED <<pc, MODE, custom_prompt, include_regex, exclude_regex,
                   commits, commit_files, missing, files, patch_content,
                   file_diffs, faulty>>

\* FetchFile without the try/except: a failed fetch ends the run
FetchFile_Unguarded ==
    /\ pc = "fetch_loop"
    /\ idx <= Len(files)
    /\ LET sha == commits[Len(commits)]
           filename == files[idx]
       IN IF filename \in missing
          THEN /\ calls' = Append(calls, Call("get_file_content", filename, "raised"))
               /\ pc' = "raised"
               /\ UNCHANGED combined
          ELSE /\ calls' = Append(calls, Call("get_file_content", filename, "ok"))
               /\ combined' = Append(combined, Unit(filename, ContentOf(sha, filename)))
               /\ UNCHANGED pc
    /\ idx' = idx + 1
    /\ UNCHANGED <<MODE, custom_prompt, include_regex, exclude_regex,
                   commits, commit_files, missing, files, patch_content,
                   file_diffs, faulty, comments>>

\* analyze_commit_files, one iteration of the loop over files
FetchFile ==
    /\ pc = "fetch_loop"
    /\ idx <= Len(files)
    /\ LET sha == commits[Len(commits)]
           filename == files[idx]
       IN /\ calls' = Append(calls, Call("get_file_content", filename,
                                          IF filename \in missing THEN "raised" ELSE "ok"))
          /\ combined' = IF filename \in missing THEN combined
                         ELSE Append(combined, Unit(filename, ContentOf(sha, filename)))
    /\ idx' = idx + 1
    /\ UNCHANGED <<pc, MODE, custom_prompt, include_regex, exclude_regex,
                   commits, commit_files, missing, files, patch_content,
                   file_diffs, faulty, comments>>

\* ReviewCommitFiles catching the service error and posting it as the review
ReviewCommitFiles_PostsError ==
    /\ pc = "fetch_loop"
    /\ idx > Len(files)
    /\ \E ok \in BOOLEAN :
         /\ calls' = calls \o <<Call("generate_response", <<>>,
                                     IF ok THEN "ok" ELSE "raised"),
                                Call("post_comment", <<>>, "ok")>>
         /\ comments' = Append(comments,
                Comment(ReviewBanner,
                        IF ok THEN ReviewOf(create_review_prompt(combined, custom_prompt))
                        ELSE <<"ServiceError">>))
         /\ pc' = "returned"
    /\ UNCHANGED <<MODE, custom_prompt, include_regex, exclude_regex, commits,
                   commit_files, missing, files, patch_content, file_diffs,
                   faulty, idx, combined>>

\* analyze_commit_files, after the loop: one request, one comment
ReviewCommitFiles ==
    /\ pc = "fetch_loop"
    /\ idx > Len(files)
    /\ LET prompt == create_review_prompt(combined, custom_prompt)
       IN \E ok \in BOOLEAN :
            IF ok
            THEN /\ calls' = calls \o <<Call("generate_response", <<>>, "ok"),
                                        Call("post_comment", <<>>, "ok")>>
                 /\ comments' = Append(comments, Comment(ReviewBanner, ReviewOf(prompt)))
                 /\ pc' = "returned"
            ELSE /\ calls' = Append(calls, Call("generate_response", <<>>, "raised"))
                 /\ pc' = "raised"
                 /\ UNCHANGED comments
    /\ UNCHANGED <<MODE, custom_prompt, include_regex, exclude_regex, commits,
                   commit_files, missing, files, patch_content, file_diffs,
                   faulty, idx, combined>>

\* ProcessPatch without the return of line 147: the empty patch is analyzed
\* after the notice
ProcessPatch_NoReturn ==
    /\ pc = "process_patch"
    /\ \E ok \in BOOLEAN, patch \in Patches :
         IF ~ok
         THEN /\ pc' = "raised"
              /\ calls' = Append(calls, Call("get_pr_patch", <<>>, "raised"))
              /\ UNCHANGED <<patch_content, comments>>
         ELSE /\ patch_content' = patch
              /\ pc' = "analyze_patch"
              /\ IF ~Truthy(patch)
                 THEN /\ calls' = calls \o <<Call("get_pr_patch", <<>>, "ok"),
                                             Call("post_comment", <<>>, "ok")>>
                      /\ comments' = Append(comments, Comment(NoChangesBanner, <<>>))
                 ELSE /\ calls' = Append(calls, Call("get_pr_patch", <<>>, "ok"))
                      /\ UNCHANGED comments
    /\ UNCHANGED <<MODE, custom_prompt, include_regex, exclude_regex, commits,
                   commit_files, missing, files, file_diffs, faulty, idx,
                   combined>>

\* process_patch: fetch the patch, stop with a notice when it is empty
ProcessPatch ==
    /\ pc = "process_patch"
    /\ \E ok \in BOOLEAN, patch \in Patches :
         IF ~ok
         THEN /\ pc' = "raised"
              /\ calls' = Append(calls, Call("get_pr_patch", <<>>, "raised"))
              /\ UNCHANGED <<patch_content, comments>>
         ELSE /\ patch_content' = patch
              /\ IF ~Truthy(patch)
                 THEN /\ calls' = calls \o <<Call("get_pr_patch", <<>>, "ok"),
                                             Call("post_comment", <<>>, "ok")>>
                      /\ comments' = Append(comments, Comment(NoChangesBanner, <<>>))
                      /\ pc' = "returned"
                 ELSE /\ calls' = Append(calls, Call("get_pr_patch", <<>>, "ok"))
                      /\ pc' = "analyze_patch"
                      /\ UNCHANGED comments
    /\ UNCHANGED <<MODE, custom_prompt, include_regex, exclude_regex, commits,
                   commit_files, missing, files, file_diffs, faulty, idx,
                   combined>>

\* analyze_patch, up to the loop: split the patch on the diff headers
AnalyzePatch ==
    /\ pc = "analyze_patch"
    /\ LET diffs == SplitDiffs(patch_content)
       IN /\ file_diffs' = diffs
          /\ \E bad \in SUBSET {i \in 1..Len(diffs) : Truthy(Strip(diffs[i]))} :
               faulty' = bad
    /\ idx' = 1
    /\ pc' = "diff_loop"
    /\ UNCHANGED <<MODE, custom_prompt, include_regex, exclude_regex, commits,
                   commit_files, missing, files, patch_content, combined,
                   calls, comments>>

\* ProcessDiff posting the failure notice and then letting the failure end
\* the loop (a "raise" at the end of the except block)
ProcessDiff_Reraises ==
    /\ pc = "diff_loop"
    /\ idx <= Len(file_diffs)
    /\ LET diff_text == file_diffs[idx]
       IN IF ~Truthy(Strip(diff_text))
          THEN UNCHANGED <<pc, combined, calls, comments>>
          ELSE IF idx \in faulty
          THEN /\ calls' = Append(calls, Call("post_comment", <<>>, "ok"))
               /\ comments' = Append(comments, Comment(DiffFailureBanner, <<>>))
               /\ pc' = "raised"
               /\ UNCHANGED combined
          ELSE /\ combined' = Append(combined, Unit(FileName(diff_text), Strip(diff_text)))
               /\ UNCHANGED <<pc, calls, comments>>
    /\ idx' = idx + 1
    /\ UNCHANGED <<MODE, custom_prompt, include_regex, exclude_regex,
                   commits, commit_files, missing, files, patch_content,
                   file_diffs, faulty>>

\* analyze_patch, one iteration of the loop over file_diffs
ProcessDiff ==
    /\ pc = "diff_loop"
    /\ idx <= Len(file_diffs)
    /\ LET diff_text == file_diffs[idx]
       IN IF ~Truthy(Strip(diff_text))
          THEN UNCHANGED <<combined, calls, comments>>
          ELSE IF idx \in faulty
          THEN /\ calls' = Append(calls, Call("post_comment", <<>>, "ok"))
               /\ comments' = Append(comments, Comment(DiffFailureBanner, <<>>))
               /\ UNCHANGED combined
          ELSE /\ combined' = Append(combined, Unit(FileName(diff_text), Strip(diff_text)))
               /\ UNCHANGED <<calls, comments>>
    /\ idx' = idx + 1
    /\ UNCHANGED <<pc, MODE, custom_prompt, include_regex, exclude_regex,
                   commits, commit_files, missing, files, patch_content,
                   file_diffs, faulty>>

\* analyze_patch, after the loop: one request, one comment
ReviewPatch ==
    /\ pc = "diff_loop"
    /\ idx > Len(file_diffs)
    /\ LET review_prompt == create_review_prompt(combined, custom_prompt)
       IN \E ok \in BOOLEAN :
            IF ok
            THEN /\ calls' = calls \o <<Call("generate_response", <<>>, "ok"),
                                        Call("post_comment", <<>>, "ok")>>
                 /\ comments' = Append(comments, Comment(ReviewBanner, ReviewOf(review_prompt)))
                 /\ pc' = "returned"
            ELSE /\ calls' = Append(calls, Call("generate_response", <<>>, "raised"))
                 /\ pc' = "raised"
                 /\ UNCHANGED comments
    /\ UNCHANGED <<MODE, custom_prompt, include_regex, exclude_regex, commits,
                   commit_files, missing, files, patch_content, file_diffs,
                   faulty, idx, combined>>

Next ==
    \/ Main
    \/ ProcessFiles
    \/ AnalyzeCommitFiles
    \/ FetchFile
    \/ ReviewCommitFiles
    \/ ProcessPatch
    \/ AnalyzePatch
    \/ ProcessDiff
    \/ ReviewPatch

Spec == Init /\ [][Next]_vars

\* ------------------------------------------------------------- observations

Done == pc \in {"returned", "raised"}

CountCalls(fn) == Cardinality({i \in 1..Len(calls) : calls[i].fn = fn})

CountComments(banner) ==
    Cardinality({i \in 1..Len(comments) : comments[i].banner = banner})

GenerateRaised ==
    \E i \in 1..Len(calls) :
        calls[i].fn = "generate_response" /\ calls[i].outcome = "raised"

\* the review comment analyze_* posts for the content aggregated so far
ReviewComment ==
    Comment(ReviewBanner, ReviewOf(create_review_prompt(combined, custom_prompt)))

\* the loop of analyze_commit_files has been entered
InFileLoop == MODE = "files" /\ idx >= 1

\* the loop of analyze_patch has been entered
InDiffLoop == MODE = "patch" /\ idx >= 1

\* the segments of file_diffs that are not only whitespace, among the first n
Retained(n) == {i \in 1..n : Truthy(Strip(file_diffs[i]))}

\* the elements of 1..n that are in S, in increasing order
RECURSIVE Ascending(_, _)
Ascending(S, n) ==
    IF n = 0 THEN <<>>
    ELSE IF n \in S THEN Append(Ascending(S, n - 1), n)
    ELSE Ascending(S, n - 1)

\* ------------------------------------------------------------------- claims

\* C1: in either mode, whatever the number of files or diff segments and
\* whichever of them fail, generate_response is called at most once and at
\* most one comment with the review banner is posted.
C1_AtMostOneReview ==
    /\ CountCalls("generate_response") <= 1
    /\ CountComments(ReviewBanner) <= 1

C1_Witness ==
    /\ pc = "returned"
    /\ MODE = "patch"
    /\ Len(combined) >= 2
    /\ faulty # {}
    /\ CountCalls("generate_response") = 1
    /\ CountComments(ReviewBanner) = 1

\* C2: in files mode, once the commit list has come back empty the run has
\* returned with no comment posted and no call beyond get_pr and get_commits:
\* no file listing, no content fetch, no completion request.
C2_NoCommitsNoEffects ==
    (MODE = "files" /\ CountCalls("get_commits") = 1 /\ commits = <<>>)
        => /\ pc = "returned"
           /\ comments = <<>>
           /\ calls = <<Call("get_pr", <<>>, "ok"), Call("get_commits", <<>>, "ok")>>

C2_Witness ==
    MODE = "files" /\ CountCalls("get_commits") = 1 /\ commits = <<>>

\* C3: in patch mode, once the patch has come back empty the run has returned
\* with exactly one comment, the "no changes" notice, and without any
\* completion request or review comment.
C3_EmptyPatchNotice ==
    (MODE = "patch" /\ ~Truthy(patch_content)
       /\ \E i \in 1..Len(calls) :
            calls[i].fn = "get_pr_patch" /\ calls[i].outcome = "ok")
        => /\ pc = "returned"
           /\ comments = <<Comment(NoChangesBanner, <<>>)>>
           /\ CountCalls("generate_response") = 0
           /\ CountComments(ReviewBanner) = 0

C3_Witness ==
    /\ MODE = "patch"
    /\ ~Truthy(patch_content)
    /\ CountCalls("get_pr_patch") = 1
    /\ pc = "returned"

\* C4: in files mode a failed content fetch stops nothing: the files fetched
\* so far are the filtered files in order, failed or not; the aggregated
\* content holds one unit per file fetched successfully, in order; and after
\* the loop every file has been tried, the completion service has been called
\* once and, unless that call itself raised, the review of that content is the
\* one comment posted.
C4_FetchFailureIsolated ==
    InFileLoop =>
        LET tried == SubSeq(files, 1, idx - 1)
            got == SelectSeq(tried, LAMBDA f : f \notin missing)
            fetches == SelectSeq(calls, LAMBDA c : c.fn = "get_file_content")
        IN /\ Len(fetches) = Len(tried)
           /\ \A i \in 1..Len(tried) :
                /\ fetches[i].arg = tried[i]
                /\ fetches[i].outcome = "raised" <=> tried[i] \in missing
           /\ Len(combined) = Len(got)
           /\ \A i \in 1..Len(got) :
                /\ combined[i].label = got[i]
                /\ combined[i].body = ContentOf(commits[Len(commits)], got[i])
           /\ pc # "fetch_loop" =>
                /\ idx = Len(files) + 1
                /\ CountCalls("generate_response") = 1
                /\ GenerateRaised \/ comments = <<ReviewComment>>

C4_Witness ==
    /\ InFileLoop
    /\ pc = "returned"
    /\ Len(files) >= 2
    /\ files[1] \in missing
    /\ files[2] \notin missing
    /\ comments = <<ReviewComment>>

\* every fetch failed and the review of the empty content was still posted
C4_AllFailedWitness ==
    /\ InFileLoop
    /\ pc = "returned"
    /\ Len(files) >= 2
    /\ Range(files) \subseteq missing
    /\ combined = <<>>
    /\ comments = <<ReviewComment>>

\* C5: in either mode, when generate_response raises, the run ends there with
\* the exception (nothing is called afterwards) and no comment with the review
\* banner is posted.
C5_ServiceErrorAborts ==
    \A i \in 1..Len(calls) :
        (calls[i].fn = "generate_response" /\ calls[i].outcome = "raised")
            => /\ pc = "raised"
               /\ i = Len(calls)
               /\ CountComments(ReviewBanner) = 0

C5_Witness ==
    /\ GenerateRaised
    /\ MODE = "files"
    /\ Len(combined) >= 1

\* the comments are a single review, possibly with per-segment failure
\* notices posted before it
ReviewWithFailureNotices ==
    /\ CountComments(ReviewBanner) = 1
    /\ \A i \in 1..Len(comments) :
         comments[i].banner \in {ReviewBanner, DiffFailureBanner}

C7_SegmentFailureIsolated ==
    InDiffLoop =>
        LET seen == Retained(idx - 1)
            failed == seen \cap faulty
            good == Ascending(seen \ faulty, Len(file_diffs))
            notices == SelectSeq(comments, LAMBDA c : c.banner = DiffFailureBanner)
        IN /\ Len(notices) = Cardinality(failed)
           /\ SubSeq(comments, 1, Len(notices)) = notices
           /\ Len(combined) = Len(good)
           /\ \A k \in 1..Len(good) :
                combined[k].body = Strip(file_diffs[good[k]])
           /\ pc = "diff_loop" => comments = notices
           /\ pc # "diff_loop" =>
                /\ idx = Len(file_diffs) + 1
                /\ CountCalls("generate_response") = 1
                /\ GenerateRaised \/ comments = Append(notices, ReviewComment)

C7_Witness ==
    /\ InDiffLoop
    /\ pc = "returned"
    /\ \E i \in faulty : \E j \in Retained(Len(file_diffs)) \ faulty : i < j
    /\ CountComments(DiffFailureBanner) >= 1
    /\ CountComments(ReviewBanner) = 1

\* C8: the files analyze_commit_files goes on with are exactly the listed
\* files whose name matches the include pattern (when one is given) and does
\* not match the exclude pattern (when one is given), in their listed order:
\* a subset of the listing, the listing itself without patterns, and
\* unchanged by filtering again.  Include runs before exclude: a malformed
\* exclude pattern raises only when the include filter left a file.
KeptBy(inc, exc, f) ==
    /\ Truthy(inc) => Search(inc, f)
    /\ Truthy(exc) => ~Search(exc, f)

FilterRaised ==
    /\ MODE = "files"
    /\ pc = "raised"
    /\ calls # <<>>
    /\ calls[Len(calls)] = Call("get_commit_files", <<>>, "ok")

C8_FilterExact ==
    /\ InFileLoop =>
         /\ files = SelectSeq(commit_files,
                              LAMBDA f : KeptBy(include_regex, exclude_regex, f))
         /\ Range(files) \subseteq Range(commit_files)
         /\ Len(files) <= Len(commit_files)
         /\ (~Truthy(include_regex) /\ ~Truthy(exclude_regex)) => files = commit_files
         /\ FilterFiles(files, include_regex, exclude_regex) = files
         /\ ~(Truthy(include_regex) /\ Malformed(include_regex) /\ commit_files # <<>>)
         /\ ~(Truthy(exclude_regex) /\ Malformed(exclude_regex) /\ files # <<>>)
    /\ FilterRaised =>
         \/ Truthy(include_regex) /\ Malformed(include_regex) /\ commit_files # <<>>
         \/ /\ Truthy(exclude_regex) /\ Malformed(exclude_regex)
            /\ \E f \in Range(commit_files) :
                 ~Truthy(include_regex) \/ Search(include_regex, f)

C8_Witness ==
    /\ InFileLoop
    /\ Truthy(include_regex)
    /\ Truthy(exclude_regex)
    /\ Len(commit_files) = 2
    /\ Len(files) = 1
    /\ Search(include_regex, commit_files[1])
    /\ Search(include_regex, commit_files[2])

\* the bodies of the aggregated units, in order
Bodies == [k \in 1..Len(combined) |-> combined[k].body]

\* where each of `bodies` starts in s when s is read from pos as whitespace,
\* body, whitespace, body, ..., whitespace; a 0 where s does not read so
RECURSIVE Locate(_, _, _)
Locate(s, pos, bodies) ==
    LET rest == {i \in pos..Len(s) : s[i] \notin Whitespace}
        p == IF rest = {} THEN Len(s) + 1
             ELSE CHOOSE i \in rest : \A j \in rest : i <= j
    IN IF bodies = <<>>
       THEN IF p = Len(s) + 1 THEN <<>> ELSE <<0>>
       ELSE LET b == Head(bodies)
            IN IF /\ b # <<>>
                  /\ p + Len(b) - 1 <= Len(s)
                  /\ SubSeq(s, p, p + Len(b) - 1) = b
               THEN <<p>> \o Locate(s, p + Len(b), Tail(bodies))
               ELSE <<0>>

\* the loop of analyze_patch is over and no segment's processing raised
SegmentedCleanly ==
    InDiffLoop /\ idx = Len(file_diffs) + 1 /\ faulty = {}

\* C9: the patch is the bodies of the aggregated units, in their order, with
\* only whitespace before, between and after them; every diff header of the
\* patch is where one body starts, and only the first body may start
\* elsewhere (text before the first header): no segment is merged into
\* another, moved or left out.
C9_SegmentationLossless ==
    SegmentedCleanly =>
        LET at == Locate(patch_content, 1, Bodies)
        IN /\ Len(at) = Len(combined)
           /\ \A k \in 1..Len(at) : at[k] # 0
           /\ HeaderPositions(patch_content) \subseteq Range(at)
           /\ \A k \in 2..Len(at) : at[k] \in HeaderPositions(patch_content)
           /\ \A k \in 1..Len(at) :
                at[k] \in HeaderPositions(patch_content) => combined[k].body[1] = "d"

C9_Witness ==
    /\ SegmentedCleanly
    /\ Len(combined) >= 2
    /\ patch_content[1] \in Whitespace
    /\ patch_content[Len(patch_content)] \in Whitespace
    /\ combined[1].body = combined[2].body

\* the first line of a segment
FirstLine(seg) == SubSeq(seg, 1, LineEnd(seg, 1))

\* line is "diff --git a/" m " b/" t for some non-empty m
IsDestination(line, t) ==
    /\ t # <<>>
    /\ LET n == Len(line) - Len(t) - 5
       IN /\ n >= 1
          /\ line = <<"d", " ", "a">> \o SubSeq(line, 4, 3 + n) \o <<" ", "b">> \o t

Suffixes(line) == {SubSeq(line, i, Len(line)) : i \in 1..Len(line)}

\* the label is the shortest destination token of the segment's first line,
\* and the sentinel when that line has none
LabelOf(seg, label) ==
    LET cands == {t \in Suffixes(FirstLine(seg)) : IsDestination(FirstLine(seg), t)}
    IN IF cands = {} THEN label = UnknownFile
       ELSE label \in cands /\ \A t \in cands : Len(label) <= Len(t)

\* every retained segment has its unit, labelled from its header, and the
\* units are what the review is asked about
UnitsLabelled ==
    LET good == Ascending(Retained(Len(file_diffs)), Len(file_diffs))
    IN /\ Len(combined) = Len(good)
       /\ \A k \in 1..Len(good) :
            /\ LabelOf(file_diffs[good[k]], combined[k].label)
            /\ combined[k].body = Strip(file_diffs[good[k]])
       /\ \A i \in 1..Len(file_diffs) :
            (\A j \in 1..Len(file_diffs[i]) : file_diffs[i][j] \in Whitespace)
                => i \notin Range(good)
       /\ pc = "returned" => comments = <<ReviewComment>>

\* C10 as stated: for every non-empty patch each retained segment is labelled
\* with the destination path of its header line, or "Unknown file" without
\* one; whitespace-only segments are dropped; every retained segment is in
\* the aggregated content; and a patch without any diff header yields exactly
\* one segment, labelled "Unknown file", holding the whole (trimmed) text.
C10_HeaderlessPatchOneSegment ==
    (SegmentedCleanly /\ Truthy(patch_content)) =>
        /\ UnitsLabelled
        /\ HeaderPositions(patch_content) = {} =>
             combined = <<Unit(UnknownFile, Strip(patch_content))>>

\* C10 as amended: the same, except that a patch without any diff header
\* yields that one segment only when it is not whitespace alone; a
\* whitespace-only patch yields no segment at all.
C10_LabelsAndDrops ==
    (SegmentedCleanly /\ Truthy(patch_content)) =>
        /\ UnitsLabelled
        /\ HeaderPositions(patch_content) = {} =>
             IF Truthy(Strip(patch_content))
             THEN combined = <<Unit(UnknownFile, Strip(patch_content))>>
             ELSE combined = <<>>

C10_Witness ==
    /\ SegmentedCleanly
    /\ pc = "returned"
    /\ Len(combined) = 2
    /\ combined[1].label = <<"y">>
    /\ combined[2].label = UnknownFile
    /\ combined[2].body[1] = "d"

====
